---- MODULE Spec2Model ----
(***************************************************************************)
(* Model of intrusive::list_element<Tag> and intrusive::list<T, Tag>       *)
(* (src/intrusive_list.h).                                                 *)
(*                                                                         *)
(* A node is a list_element object.  Elements are the nodes 1..NumElems,   *)
(* the sentinel (`pointer`) of list l is the node 0 - l.  The program      *)
(* state is the pair of pointer fields of every node: next[n], prev[n].    *)
(* hist is a history variable: the last operation, its arguments, its      *)
(* return value and the pointer fields before it ran.  Forget drops the    *)
(* history; an operation starts from a dropped history unless it extends   *)
(* a sequence of calls that hist follows (a run of pushes, a push and the  *)
(* matching pop).  Every sequence of operations of the program is a        *)
(* behaviour of the model with a Forget step between two operations.       *)
(***************************************************************************)
EXTENDS Integers, Sequences, FiniteSets

VARIABLES next, prev, hist

vars == <<next, prev, hist>>

\* Bounds of the model.
NumElems == 3
NumLists == 2

Elems == 1..NumElems
Lists == 1..NumLists

\* list::pointer : the sentinel node owned by list l.
pointer(l) == 0 - l

Sentinels == {pointer(l) : l \in Lists}
Node == Elems \cup Sentinels

\* Value of an absent argument or return value in hist: an integer that
\* is no node.
None == NumElems + 1

\* The pointer fields of all nodes as one value.
Heap == [next |-> next, prev |-> prev]

----------------------------------------------------------------------------
(* list_element                                                            *)

\* list_element() { prev = next = this; }
list_element(H, this) ==
  LET H1 == [H EXCEPT !.next[this] = this]
  IN  [H1 EXCEPT !.prev[this] = H1.next[this]]

\* link without the write prev->next = this.
link_noPrevNext(H, this, pv, nx) ==
  LET H1 == [H EXCEPT !.next[this] = nx]
      H2 == [H1 EXCEPT !.prev[this] = pv]
  IN  [H2 EXCEPT !.prev[nx] = this]

\* void link(list_element *prev, list_element *next)
link(H, this, pv, nx) ==
  LET H1 == [H EXCEPT !.next[this] = nx]
      H2 == [H1 EXCEPT !.prev[this] = pv]
      H3 == [H2 EXCEPT !.prev[nx] = this]
  IN  [H3 EXCEPT !.next[pv] = this]

\* unlink without the final reset this->prev = this->next = this.
unlink_noReset(H, this) ==
  LET H1 == [H EXCEPT !.prev[H.next[this]] = H.prev[this]]
  IN  [H1 EXCEPT !.next[H1.prev[this]] = H1.next[this]]

\* unlink that resets this->prev and this->next to a null pointer.
unlink_resetNull(H, this) ==
  LET H1 == [H EXCEPT !.prev[H.next[this]] = H.prev[this]]
      H2 == [H1 EXCEPT !.next[H1.prev[this]] = H1.next[this]]
      H3 == [H2 EXCEPT !.next[this] = None]
  IN  [H3 EXCEPT !.prev[this] = H3.next[this]]

\* unlink that reconnects the neighbours the wrong way round.
unlink_swapped(H, this) ==
  LET H1 == [H EXCEPT !.prev[H.next[this]] = H.next[this]]
      H2 == [H1 EXCEPT !.next[H1.prev[this]] = H1.prev[this]]
      H3 == [H2 EXCEPT !.next[this] = this]
  IN  [H3 EXCEPT !.prev[this] = H3.next[this]]

\* unlink without the write this->next->prev = prev.
unlink_noNextPrev(H, this) ==
  LET H2 == [H EXCEPT !.next[H.prev[this]] = H.next[this]]
      H3 == [H2 EXCEPT !.next[this] = this]
  IN  [H3 EXCEPT !.prev[this] = H3.next[this]]

\* void unlink()
unlink(H, this) ==
  LET H1 == [H EXCEPT !.prev[H.next[this]] = H.prev[this]]
      H2 == [H1 EXCEPT !.next[H1.prev[this]] = H1.next[this]]
      H3 == [H2 EXCEPT !.next[this] = this]
  IN  [H3 EXCEPT !.prev[this] = H3.next[this]]

----------------------------------------------------------------------------
(* list_iterator                                                           *)

\* list_iterator &operator++() : iter = iter->next
inc(H, iter) == H.next[iter]

\* list_iterator &operator--() : iter = iter->prev
dec(H, iter) == H.prev[iter]

----------------------------------------------------------------------------
(* list                                                                    *)

\* bool empty() const : pointer.prev == &pointer
empty(H, l) == H.prev[pointer(l)] = pointer(l)

\* iterator begin() : iterator(pointer.next)
begin(H, l) == H.next[pointer(l)]

\* iterator end() : iterator(&pointer)
end(l) == pointer(l)

\* T &front() : *pointer.next
front(H, l) == H.next[pointer(l)]

\* T &back() : *pointer.prev
back(H, l) == H.prev[pointer(l)]

\* clear that resets pointer.prev only.
clear_prevOnly(H, l) == [H EXCEPT !.prev[pointer(l)] = pointer(l)]

\* clear that also resets the first member to the default state.
clear_resetHead(H, l) ==
  LET H0 == list_element(H, H.next[pointer(l)])
      H1 == [H0 EXCEPT !.next[pointer(l)] = pointer(l)]
  IN  [H1 EXCEPT !.prev[pointer(l)] = H1.next[pointer(l)]]

\* void clear() : pointer.prev = pointer.next = &pointer
clear(H, l) ==
  LET H1 == [H EXCEPT !.next[pointer(l)] = pointer(l)]
  IN  [H1 EXCEPT !.prev[pointer(l)] = H1.next[pointer(l)]]

\* push_back that links next to the head instead of the tail.
push_back_atFront(H, l, elem) ==
  link(H, elem, pointer(l), H.next[pointer(l)])

\* void push_back(T &elem) : elem.link(pointer.prev, &pointer)
push_back(H, l, elem) == link(H, elem, H.prev[pointer(l)], pointer(l))

\* void push_front(T &elem) : elem.link(&pointer, pointer.next)
push_front(H, l, elem) == link(H, elem, pointer(l), H.next[pointer(l)])

\* void pop_back() : pointer.prev->unlink()
pop_back(H, l) == unlink(H, H.prev[pointer(l)])

\* void pop_front() : pointer.next->unlink()
pop_front(H, l) == unlink(H, H.next[pointer(l)])

\* insert that links elem after pos instead of before it.
insert_afterPos(H, pos, elem) ==
  [heap |-> link(H, elem, pos, H.next[pos]), ret |-> elem]

\* iterator insert(const_iterator pos, T &elem)
insert(H, pos, elem) ==
  [heap |-> link(H, elem, H.prev[pos], pos), ret |-> elem]

\* erase that unlinks first and advances the iterator afterwards.
erase_incAfter(H, pos) ==
  LET H1 == unlink(H, pos)
  IN  [heap |-> H1, ret |-> inc(H1, pos)]

\* iterator erase(const_iterator pos)
erase(H, pos) ==
  LET pos1 == inc(H, pos)
  IN  [heap |-> unlink(H, H.prev[pos1]), ret |-> pos1]

\* splice that re-attaches the range after pos instead of before it.
splice_afterPos(H, pos, first, last) ==
  IF first = last THEN H
  ELSE
    LET H1 == [H EXCEPT !.next[H.prev[first]] = last]
        swap_last == H1.prev[last]
        H2 == [H1 EXCEPT !.prev[last] = H1.prev[first]]
        H3 == [H2 EXCEPT !.prev[H2.next[pos]] = swap_last]
        H4 == [H3 EXCEPT !.next[swap_last] = H3.next[pos]]
        H5 == [H4 EXCEPT !.prev[first] = pos]
    IN  [H5 EXCEPT !.next[pos] = first]

\* splice without the write first->prev->next = last.
splice_keepSourceLink(H, pos, first, last) ==
  IF first = last THEN H
  ELSE
    LET swap_last == H.prev[last]
        H2 == [H EXCEPT !.prev[last] = H.prev[first]]
        H3 == [H2 EXCEPT !.next[H2.prev[pos]] = first]
        H4 == [H3 EXCEPT !.prev[first] = H3.prev[pos]]
        H5 == [H4 EXCEPT !.next[swap_last] = pos]
    IN  [H5 EXCEPT !.prev[pos] = swap_last]

\* splice without the early return for first == last.
splice_noEarlyReturn(H, pos, first, last) ==
  LET H1 == [H EXCEPT !.next[H.prev[first]] = last]
      swap_last == H1.prev[last]
      H2 == [H1 EXCEPT !.prev[last] = H1.prev[first]]
      H3 == [H2 EXCEPT !.next[H2.prev[pos]] = first]
      H4 == [H3 EXCEPT !.prev[first] = H3.prev[pos]]
      H5 == [H4 EXCEPT !.next[swap_last] = pos]
  IN  [H5 EXCEPT !.prev[pos] = swap_last]

\* splice that reads last->prev only after overwriting it.
splice_lateSwapLast(H, pos, first, last) ==
  IF first = last THEN H
  ELSE
    LET H1 == [H EXCEPT !.next[H.prev[first]] = last]
        H2 == [H1 EXCEPT !.prev[last] = H1.prev[first]]
        swap_last == H2.prev[last]
        H3 == [H2 EXCEPT !.next[H2.prev[pos]] = first]
        H4 == [H3 EXCEPT !.prev[first] = H3.prev[pos]]
        H5 == [H4 EXCEPT !.next[swap_last] = pos]
    IN  [H5 EXCEPT !.prev[pos] = swap_last]

\* void splice(const_iterator pos, list &, const_iterator first,
\*             const_iterator last)
splice(H, pos, first, last) ==
  IF first = last THEN H
  ELSE
    LET H1 == [H EXCEPT !.next[H.prev[first]] = last]
        swap_last == H1.prev[last]
        H2 == [H1 EXCEPT !.prev[last] = H1.prev[first]]
        H3 == [H2 EXCEPT !.next[H2.prev[pos]] = first]
        H4 == [H3 EXCEPT !.prev[first] = H3.prev[pos]]
        H5 == [H4 EXCEPT !.next[swap_last] = pos]
    IN  [H5 EXCEPT !.prev[pos] = swap_last]

\* move assignment that does not reset the source list.
move_assign_keepSource(H, this, other) ==
  LET H1 == clear(H, this)
  IN  IF ~empty(H1, other)
        THEN link(H1, pointer(this), H1.prev[pointer(other)],
                  H1.next[pointer(other)])
        ELSE H1

\* move assignment that returns at once when other is this list.
move_assign_selfCheck(H, this, other) ==
  IF this = other THEN H
  ELSE
    LET H1 == clear(H, this)
        H2 == IF ~empty(H1, other)
                THEN link(H1, pointer(this), H1.prev[pointer(other)],
                          H1.next[pointer(other)])
                ELSE H1
    IN  clear(H2, other)

\* list &operator=(list &&other)
move_assign(H, this, other) ==
  LET H1 == clear(H, this)
      H2 == IF ~empty(H1, other)
              THEN link(H1, pointer(this), H1.prev[pointer(other)],
                        H1.next[pointer(other)])
              ELSE H1
  IN  clear(H2, other)

\* list(list &&other) : the member `pointer` is default-constructed, then
\* operator=(std::move(other)) runs.
move_construct(H, this, other) ==
  move_assign(list_element(H, pointer(this)), this, other)

----------------------------------------------------------------------------
(* Traversal, as a caller writes it with the iterator.                     *)

RECURSIVE walk(_, _, _, _)
\* for (it = from; it != to; ++it) visit(*it), at most fuel steps.
walk(H, from, to, fuel) ==
  IF from = to \/ fuel = 0 THEN <<>>
  ELSE <<from>> \o walk(H, inc(H, from), to, fuel - 1)

RECURSIVE walkBack(_, _, _, _)
\* for (it = from; it != to; ) { --it; visit(*it); }, at most fuel steps.
walkBack(H, from, to, fuel) ==
  IF from = to \/ fuel = 0 THEN <<>>
  ELSE LET it == dec(H, from)
       IN  <<it>> \o walkBack(H, it, to, fuel - 1)

Fuel == Cardinality(Node)

\* Forward iteration of list l from begin() to end().
Forward(H, l) == walk(H, begin(H, l), end(l), Fuel)

\* Backward iteration of list l from end() down to begin().
Backward(H, l) == walkBack(H, end(l), begin(H, l), Fuel)

Range(s) == {s[i] : i \in DOMAIN s}

Reverse(s) == [i \in 1..Len(s) |-> s[Len(s) + 1 - i]]

\* The nodes of the range [first, last).
RangeSeq(H, first, last) == walk(H, first, last, Fuel)

\* The members of list l.
Members(H, l) == Range(Forward(H, l))

\* The positions of list l: its members and end().
Positions(H, l) == Members(H, l) \cup {end(l)}

\* An element in the default state of a list_element: prev = next = this.
Unlinked(H, x) == H.next[x] = x /\ H.prev[x] = x

----------------------------------------------------------------------------
(* The state machine: one action per operation of the public interface,    *)
(* called within its documented preconditions.                             *)

\* The history record written by every action.
Rec(op, l, other, elem, pos, first, last, ret, run, rt, pre2) ==
  [op |-> op, l |-> l, other |-> other, elem |-> elem, pos |-> pos,
   first |-> first, last |-> last, ret |-> ret, pre |-> Heap,
   run |-> run, rt |-> rt, pre2 |-> pre2]

\* The history record of a state whose history was dropped.
NoHist ==
  Rec("none", None, None, None, None, None, None, None, <<>>, FALSE, Heap)

\* No history is kept in this state.
Idle == hist.op = "none"

\* The last operation was `op` on list l, part of a run of such calls that
\* started when l was empty.
InRun(op, l) == hist.op = op /\ hist.l = l /\ hist.run # <<>>

\* The last operation was `op` on list l.
Just(op, l) == hist.op = op /\ hist.l = l

\* Install the pointer fields computed by an operation.
Commit(H) == next' = H.next /\ prev' = H.prev

\* Every list and every element has just been constructed.
Init ==
  /\ next = [n \in Node |-> n]
  /\ prev = [n \in Node |-> n]
  /\ hist = NoHist

\* The elements pushed by the uninterrupted run of `op` calls on list l that
\* started when l was empty and ends with the push of x; <<>> if there is
\* no such run.
RunAfter(op, l, x) ==
  IF empty(Heap, l) THEN <<x>>
  ELSE IF InRun(op, l)
         THEN Append(hist.run, x)
         ELSE <<>>

\* l.push_back(x), x a default-state element.
PushBack(l, x) ==
  /\ Unlinked(Heap, x)
  /\ Commit(push_back(Heap, l, x))
  /\ hist' = Rec("push_back", l, None, x, None, None, None, None,
                 RunAfter("push_back", l, x), FALSE, Heap)

\* l.push_front(x), x a default-state element.
PushFront(l, x) ==
  /\ Unlinked(Heap, x)
  /\ Commit(push_front(Heap, l, x))
  /\ hist' = Rec("push_front", l, None, x, None, None, None, None,
                 RunAfter("push_front", l, x), FALSE, Heap)

\* l.pop_back() on a non-empty list.  rt records that the call directly
\* follows l.push_back(elem); pre2 is then the state before that push.
PopBack(l) ==
  /\ ~empty(Heap, l)
  /\ Commit(pop_back(Heap, l))
  /\ LET rt == Just("push_back", l)
     IN  hist' = Rec("pop_back", l, None, IF rt THEN hist.elem ELSE None,
                     None, None, None, None, <<>>, rt,
                     IF rt THEN hist.pre ELSE Heap)

\* l.pop_front() on a non-empty list.
PopFront(l) ==
  /\ ~empty(Heap, l)
  /\ Commit(pop_front(Heap, l))
  /\ LET rt == Just("push_front", l)
     IN  hist' = Rec("pop_front", l, None, IF rt THEN hist.elem ELSE None,
                     None, None, None, None, <<>>, rt,
                     IF rt THEN hist.pre ELSE Heap)

\* l.insert(pos, x), pos a position of l, x a default-state element.
Insert(l, pos, x) ==
  /\ pos \in Positions(Heap, l)
  /\ Unlinked(Heap, x)
  /\ LET r == insert(Heap, pos, x)
     IN  /\ Commit(r.heap)
         /\ hist' = Rec("insert", l, None, x, pos, None, None, r.ret,
                        <<>>, FALSE, Heap)

\* l.erase(pos), pos != l.end().
Erase(l, pos) ==
  /\ pos \in Members(Heap, l)
  /\ LET r == erase(Heap, pos)
     IN  /\ Commit(r.heap)
         /\ hist' = Rec("erase", l, None, None, pos, None, None, r.ret,
                        <<>>, FALSE, Heap)

\* [first, last) is a valid range of list o.
ValidRange(H, o, first, last) ==
  /\ first \in Positions(H, o)
  /\ last \in Range(walk(H, first, end(o), Fuel)) \cup {end(o)}

\* l.splice(pos, o, first, last): [first, last) a valid range of o, pos a
\* position of l outside the range.
Splice(l, pos, o, first, last) ==
  /\ ValidRange(Heap, o, first, last)
  /\ pos \in Positions(Heap, l)
  /\ pos \notin Range(RangeSeq(Heap, first, last))
  /\ Commit(splice(Heap, pos, first, last))
  /\ hist' = Rec("splice", l, o, None, pos, first, last, None,
                 <<>>, FALSE, Heap)

\* d = std::move(s)
MoveAssign(d, s) ==
  /\ Commit(move_assign(Heap, d, s))
  /\ hist' = Rec("move_assign", d, s, None, None, None, None, None,
                 <<>>, FALSE, Heap)

\* list d(std::move(s)): the object d is constructed anew from s.
MoveConstruct(d, s) ==
  /\ d # s
  /\ Commit(move_construct(Heap, d, s))
  /\ hist' = Rec("move_construct", d, s, None, None, None, None, None,
                 <<>>, FALSE, Heap)

\* l.clear()
Clear(l) ==
  /\ Commit(clear(Heap, l))
  /\ hist' = Rec("clear", l, None, None, None, None, None, None,
                 <<>>, FALSE, Heap)

\* The last operation was x.unlink().
JustUnlink(x) == hist.op = "unlink" /\ hist.elem = x

\* x.unlink(), x a member of a list or a default-state element.  rt records
\* that the call directly follows x.unlink(); pre2 is then the state before
\* that first call.
Unlink(x) ==
  /\ Unlinked(Heap, x) \/ \E l \in Lists : x \in Members(Heap, l)
  /\ Commit(unlink(Heap, x))
  /\ LET rt == JustUnlink(x)
     IN  hist' = Rec("unlink", None, None, x, None, None, None, None,
                     <<>>, rt, IF rt THEN hist.pre ELSE Heap)

\* The history is dropped; the program state is untouched.
Forget ==
  /\ ~Idle
  /\ hist' = NoHist
  /\ UNCHANGED <<next, prev>>

\* An operation starts from a dropped history; a push may also extend the
\* run of pushes hist follows, and a pop may follow the matching push.
Next ==
  \/ \E l \in Lists, x \in Elems :
        (Idle \/ InRun("push_back", l)) /\ PushBack(l, x)
  \/ \E l \in Lists, x \in Elems :
        (Idle \/ InRun("push_front", l)) /\ PushFront(l, x)
  \/ \E l \in Lists : (Idle \/ Just("push_back", l)) /\ PopBack(l)
  \/ \E l \in Lists : (Idle \/ Just("push_front", l)) /\ PopFront(l)
  \/ Idle /\ \E l \in Lists : \E pos \in Positions(Heap, l), x \in Elems :
        Insert(l, pos, x)
  \/ Idle /\ \E l \in Lists : \E pos \in Members(Heap, l) : Erase(l, pos)
  \/ Idle /\ \E l \in Lists, o \in Lists :
        \E pos \in Positions(Heap, l), first \in Positions(Heap, o) :
          \E last \in Positions(Heap, o) : Splice(l, pos, o, first, last)
  \/ Idle /\ \E d \in Lists, s \in Lists : MoveAssign(d, s)
  \/ Idle /\ \E d \in Lists, s \in Lists : MoveConstruct(d, s)
  \/ Idle /\ \E l \in Lists : Clear(l)
  \/ \E x \in Elems : (Idle \/ JustUnlink(x)) /\ Unlink(x)
  \/ Forget

Spec == Init /\ [][Next]_vars

----------------------------------------------------------------------------
(* Calls outside the documented preconditions.  The code checks none of    *)
(* them; each action runs the code as it is on arguments the valid         *)
(* operations exclude.  A behaviour ends with such a call.                 *)

\* The list x is a member of.
ListOf(H, x) == CHOOSE l \in Lists : x \in Members(H, l)

\* x is a member of some list.
IsMember(H, x) == \E l \in Lists : x \in Members(H, l)

\* x was a member of a list when clear() reset the list's sentinel: it is
\* a member of no list and its fields are not in the default state.
Former(H, x) == ~IsMember(H, x) /\ ~Unlinked(H, x)

\* The list whose sentinel the stale links of the former member x lead to.
FormerListOf(H, x) ==
  CHOOSE l \in Lists : pointer(l) \in Range(walk(H, H.next[x], x, Fuel))

\* l.pop_back() on an empty list.
PopBackEmpty(l) ==
  /\ empty(Heap, l)
  /\ Commit(pop_back(Heap, l))
  /\ hist' = Rec("pop_back_empty", l, None, None, None, None, None, None,
                 <<>>, FALSE, Heap)

\* l.pop_front() on an empty list.
PopFrontEmpty(l) ==
  /\ empty(Heap, l)
  /\ Commit(pop_front(Heap, l))
  /\ hist' = Rec("pop_front_empty", l, None, None, None, None, None, None,
                 <<>>, FALSE, Heap)

\* l.push_back(x), x currently a member of the list hist'.other.
PushBackLinked(l, x) ==
  /\ IsMember(Heap, x)
  /\ Commit(push_back(Heap, l, x))
  /\ hist' = Rec("push_back_linked", l, ListOf(Heap, x), x, None, None,
                 None, None, <<>>, FALSE, Heap)

\* l.push_front(x), x currently a member of the list hist'.other.
PushFrontLinked(l, x) ==
  /\ IsMember(Heap, x)
  /\ Commit(push_front(Heap, l, x))
  /\ hist' = Rec("push_front_linked", l, ListOf(Heap, x), x, None, None,
                 None, None, <<>>, FALSE, Heap)

\* l.insert(pos, x), x currently a member of the list hist'.other.
InsertLinked(l, pos, x) ==
  /\ pos \in Positions(Heap, l)
  /\ IsMember(Heap, x)
  /\ LET r == insert(Heap, pos, x)
     IN  /\ Commit(r.heap)
         /\ hist' = Rec("insert_linked", l, ListOf(Heap, x), x, pos, None,
                        None, r.ret, <<>>, FALSE, Heap)

\* x.unlink(), x a former member of the list hist'.l.
UnlinkFormer(x) ==
  /\ Former(Heap, x)
  /\ Commit(unlink(Heap, x))
  /\ hist' = Rec("unlink_former", FormerListOf(Heap, x), None, x, None,
                 None, None, None, <<>>, FALSE, Heap)

UncheckedOps ==
  {"pop_back_empty", "pop_front_empty", "push_back_linked",
   "push_front_linked", "insert_linked", "unlink_former"}

\* The last call was outside the preconditions.
Halted == hist.op \in UncheckedOps

NextUnchecked ==
  \/ ~Halted /\ Next
  \/ Idle /\ \E l \in Lists : PopBackEmpty(l)
  \/ Idle /\ \E l \in Lists : PopFrontEmpty(l)
  \/ Idle /\ \E l \in Lists, x \in Elems : PushBackLinked(l, x)
  \/ Idle /\ \E l \in Lists, x \in Elems : PushFrontLinked(l, x)
  \/ Idle /\ \E l \in Lists : \E pos \in Positions(Heap, l), x \in Elems :
        InsertLinked(l, pos, x)
  \/ Idle /\ \E x \in Elems : UnlinkFormer(x)

SpecUnchecked == Init /\ [][NextUnchecked]_vars

----------------------------------------------------------------------------
(* Two tags.  An element type with the bases list_element<default_tag> and *)
(* list_element<Y> carries two link nodes.  The lists 1..NumLists are      *)
(* list<T, default_tag>; YList is a list<T, Y>.  The elements that take    *)
(* part are 1..NumTagElems; the default-tag link node of element e is the  *)
(* node e, its tag-Y link node is YNode(e).                                *)

NumTagElems == 2

TagElems == 1..NumTagElems

\* The list of tag Y and the tag-Y link node of element e.
YList == NumLists + 1
YNode(e) == None + e

\* All tag-Y nodes: the link nodes of the elements and the sentinel of YList.
YNodes == {YNode(e) : e \in TagElems} \cup {pointer(YList)}

TLists == Lists \cup {YList}

\* Two lists have the same type list<T, Tag>.
SameTag(l, o) == (l \in Lists) <=> (o \in Lists)

\* A cast that always selects the default-tag base.
base_defaultTag(l, e) == e

\* static_cast<list_element<Tag> &>(elem) : the base of elem for the tag of
\* list l.
base(l, e) == IF l \in Lists THEN e ELSE YNode(e)

\* Every list and every element of the two-tag program has just been
\* constructed.
InitTags ==
  /\ next = [n \in Node \cup YNodes |-> n]
  /\ prev = [n \in Node \cup YNodes |-> n]
  /\ hist = NoHist

\* The operations of the lists of both tags.  insert() names elem.link
\* without a cast; with two list_element bases that is the link of the base
\* the element type selects, here the default tag's, and insert() of a
\* list<T, Y> does not compile.  The program moves and clears its
\* default-tag lists only.
NextTags ==
  \/ \E l \in TLists, e \in TagElems :
        (Idle \/ InRun("push_back", l)) /\ PushBack(l, base(l, e))
  \/ \E l \in TLists, e \in TagElems :
        (Idle \/ InRun("push_front", l)) /\ PushFront(l, base(l, e))
  \/ \E l \in TLists : (Idle \/ Just("push_back", l)) /\ PopBack(l)
  \/ \E l \in TLists : (Idle \/ Just("push_front", l)) /\ PopFront(l)
  \/ Idle /\ \E l \in Lists : \E pos \in Positions(Heap, l), e \in TagElems :
        Insert(l, pos, e)
  \/ Idle /\ \E l \in TLists : \E pos \in Members(Heap, l) : Erase(l, pos)
  \/ Idle /\ \E l \in TLists, o \in TLists :
        /\ SameTag(l, o)
        /\ \E pos \in Positions(Heap, l), first \in Positions(Heap, o) :
             \E last \in Positions(Heap, o) : Splice(l, pos, o, first, last)
  \/ Idle /\ \E d \in Lists, s \in Lists : MoveAssign(d, s)
  \/ Idle /\ \E d \in Lists, s \in Lists : MoveConstruct(d, s)
  \/ Idle /\ \E l \in Lists : Clear(l)
  \/ Forget

SpecTags == InitTags /\ [][NextTags]_vars

----------------------------------------------------------------------------
(* Properties.                                                             *)

\* The pointer fields before the last operation.
Pre == hist.pre

\* The position of e in the sequence s.
IndexOf(s, e) == CHOOSE i \in 1..Len(s) : s[i] = e

\* The sequence s without the elements of the set R.
Without(s, R) == SelectSeq(s, LAMBDA e : e \notin R)

\* The walk from the sentinel of l comes back to that sentinel.
Closed(H, l) ==
  LET w == Forward(H, l)
  IN  IF w = <<>> THEN H.next[pointer(l)] = pointer(l)
      ELSE H.next[w[Len(w)]] = pointer(l)

\* The ring of list l is consistent.
RingOK(H, l) ==
  /\ \A n \in Members(H, l) \cup {pointer(l)} :
        /\ H.prev[H.next[n]] = n
        /\ H.next[H.prev[n]] = n
  /\ Closed(H, l)
  /\ Members(H, l) \cap Sentinels = {}

\* C1: in every state reached by valid operations, every node n reachable
\* from a list's sentinel satisfies n.next.prev = n and n.prev.next = n, and
\* following next from the sentinel returns to that sentinel without
\* meeting another sentinel.
C1_RingInvariant == \A l \in Lists : RingOK(Heap, l)

\* A splice of a non-empty range has just run and left one list with at
\* least two members and another list with at least one.
C1_Witness ==
  /\ hist.op = "splice"
  /\ hist.first # hist.last
  /\ \E l1 \in Lists, l2 \in Lists :
        /\ l1 # l2
        /\ Len(Forward(Heap, l1)) >= 2
        /\ Len(Forward(Heap, l2)) >= 1

\* The moved range of the last splice, in its order before the call.
Moved == RangeSeq(Pre, hist.first, hist.last)

\* The destination order the splice contract prescribes: the former
\* elements before pos, the moved range, then pos and the rest.
SplicedInto(dst, pos, dstEnd, R) ==
  IF pos = dstEnd THEN dst \o R
  ELSE LET i == IndexOf(dst, pos)
       IN  SubSeq(dst, 1, i - 1) \o R \o SubSeq(dst, i, Len(dst))

\* C2: splice(pos, other, first, last) of a non-empty range of list A into
\* a different list B leaves B = (former B before pos) . range . (pos and
\* the rest) and A = former A without the range; nothing is lost or
\* duplicated.
C2_SpliceOtherList ==
  (hist.op = "splice" /\ hist.l # hist.other /\ hist.first # hist.last) =>
    LET A0 == Forward(Pre, hist.other)
        B0 == Forward(Pre, hist.l)
        A1 == Forward(Heap, hist.other)
        B1 == Forward(Heap, hist.l)
    IN  /\ B1 = SplicedInto(B0, hist.pos, end(hist.l), Moved)
        /\ A1 = Without(A0, Range(Moved))
        /\ Range(A1) \cup Range(B1) = Range(A0) \cup Range(B0)
        /\ Range(A1) \cap Range(B1) = {}
        /\ Len(A1) + Len(B1) = Len(A0) + Len(B0)

\* A range of two elements was spliced in front of a member of another
\* list.
C2_Witness ==
  /\ hist.op = "splice"
  /\ hist.l # hist.other
  /\ Len(Moved) >= 2
  /\ hist.pos \in Elems

\* C3: starting from an empty list, push_back of e1..en gives forward
\* iteration e1..en, front() = e1, back() = en and backward iteration
\* en..e1; push_front of e1..en gives the reverse order.
C3_PushOrder ==
  /\ (hist.op = "push_back" /\ hist.run # <<>>) =>
        /\ Forward(Heap, hist.l) = hist.run
        /\ Backward(Heap, hist.l) = Reverse(hist.run)
        /\ front(Heap, hist.l) = hist.run[1]
        /\ back(Heap, hist.l) = hist.run[Len(hist.run)]
  /\ (hist.op = "push_front" /\ hist.run # <<>>) =>
        /\ Forward(Heap, hist.l) = Reverse(hist.run)
        /\ Backward(Heap, hist.l) = hist.run
        /\ front(Heap, hist.l) = hist.run[Len(hist.run)]
        /\ back(Heap, hist.l) = hist.run[1]

\* Three elements were pushed at the back of an empty list in a row.
C3_Witness ==
  /\ hist.op = "push_back"
  /\ Len(hist.run) >= 3

\* C4: move-constructing or move-assigning dst from a distinct src leaves
\* dst iterating src's former elements in order, src empty, dst's ring
\* consistent; among the elements' fields only the former head's prev and
\* the former tail's next change, from src's sentinel to dst's sentinel.
C4_MoveTransfer ==
  (hist.op \in {"move_assign", "move_construct"} /\ hist.l # hist.other) =>
    LET d == pointer(hist.l)
        s == pointer(hist.other)
    IN  /\ Forward(Heap, hist.l) = Forward(Pre, hist.other)
        /\ Forward(Heap, hist.other) = <<>>
        /\ next[s] = s /\ prev[s] = s
        /\ RingOK(Heap, hist.l)
        /\ \A e \in Elems :
              /\ next[e] # Pre.next[e] =>
                    e = Pre.prev[s] /\ Pre.next[e] = s /\ next[e] = d
              /\ prev[e] # Pre.prev[e] =>
                    e = Pre.next[s] /\ Pre.prev[e] = s /\ prev[e] = d

\* A list with at least two members was move-assigned to a list that had
\* a member of its own.
C4_Witness ==
  /\ hist.op = "move_assign"
  /\ hist.l # hist.other
  /\ Len(Forward(Pre, hist.other)) >= 2
  /\ Len(Forward(Pre, hist.l)) >= 1

\* C5: push_back(x) of an unlinked x directly followed by pop_back()
\* restores every pointer field of the list's sentinel and members, leaves
\* x self-referencing, and keeps an empty list empty; likewise push_front
\* followed by pop_front.
C5_PushPopRoundTrip ==
  (hist.op \in {"pop_back", "pop_front"} /\ hist.rt) =>
    /\ \A n \in Members(hist.pre2, hist.l) \cup {pointer(hist.l)} :
          next[n] = hist.pre2.next[n] /\ prev[n] = hist.pre2.prev[n]
    /\ Unlinked(Heap, hist.elem)
    /\ empty(hist.pre2, hist.l) => empty(Heap, hist.l)

\* pop_back() has just undone a push_back on a list that had members.
C5_Witness ==
  /\ hist.op = "pop_back"
  /\ hist.rt
  /\ Len(Forward(hist.pre2, hist.l)) >= 1
  /\ Len(Forward(Pre, hist.l)) = Len(Forward(hist.pre2, hist.l)) + 1

\* C6: erase(pos) of a member b changes only b's links, prev(b).next and
\* next(b).prev; b ends self-referencing and the other elements keep their
\* order.
C6_EraseFrame ==
  hist.op = "erase" =>
    LET b == hist.pos
    IN  /\ \A n \in Node :
              /\ next[n] # Pre.next[n] => n \in {b, Pre.prev[b]}
              /\ prev[n] # Pre.prev[n] => n \in {b, Pre.next[b]}
        /\ Unlinked(Heap, b)
        /\ Forward(Heap, hist.l) = Without(Forward(Pre, hist.l), {b})
        /\ Backward(Heap, hist.l) = Without(Backward(Pre, hist.l), {b})
        /\ \A l \in Lists \ {hist.l} : Forward(Heap, l) = Forward(Pre, l)

\* The middle element of a list of three was erased.
C6_Witness ==
  /\ hist.op = "erase"
  /\ Len(Forward(Pre, hist.l)) >= 3
  /\ Pre.prev[hist.pos] \in Elems
  /\ Pre.next[hist.pos] \in Elems

\* C7: erase(pos) returns an iterator to the element that followed pos
\* before the call, and end() when pos was the last element.
C7_EraseReturn ==
  hist.op = "erase" =>
    LET s0 == Forward(Pre, hist.l)
        i == IndexOf(s0, hist.pos)
    IN  hist.ret = IF i < Len(s0) THEN s0[i + 1] ELSE end(hist.l)

\* An element with a successor was erased and the successor returned.
C7_Witness ==
  /\ hist.op = "erase"
  /\ hist.ret \in Elems
  /\ hist.ret \in Members(Heap, hist.l)

\* C8: insert(pos, x) places x immediately before pos and returns an
\* iterator to x; at end() it equals push_back(x), at begin() it equals
\* push_front(x).
C8_Insert ==
  hist.op = "insert" =>
    /\ next[hist.elem] = hist.pos
    /\ prev[hist.elem] = Pre.prev[hist.pos]
    /\ hist.ret = hist.elem
    /\ Forward(Heap, hist.l) =
         SplicedInto(Forward(Pre, hist.l), hist.pos, end(hist.l),
                     <<hist.elem>>)
    /\ hist.pos = end(hist.l) => Heap = push_back(Pre, hist.l, hist.elem)
    /\ hist.pos = begin(Pre, hist.l) =>
         Heap = push_front(Pre, hist.l, hist.elem)

\* An element was inserted between two members.
C8_Witness ==
  /\ hist.op = "insert"
  /\ hist.pos \in Elems
  /\ Pre.prev[hist.pos] \in Elems

\* The nodes reachable from the sentinel of l.
Reach(H, l) == Members(H, l) \cup {pointer(l)}

\* C9: the sets of nodes reachable from two distinct list sentinels are
\* disjoint, and a splice or move between two lists makes every moved
\* element reachable from the destination and no longer from the source.
C9_ExclusiveMembership ==
  /\ \A l1 \in Lists, l2 \in Lists :
        l1 # l2 => Reach(Heap, l1) \cap Reach(Heap, l2) = {}
  /\ (hist.op = "splice" /\ hist.l # hist.other) =>
        \A e \in Range(Moved) :
          e \in Members(Heap, hist.l) /\ e \notin Members(Heap, hist.other)
  /\ (hist.op \in {"move_assign", "move_construct"} /\ hist.l # hist.other) =>
        \A e \in Members(Pre, hist.other) :
          e \in Members(Heap, hist.l) /\ e \notin Members(Heap, hist.other)

\* A splice moved some but not all members of one list into another list
\* that already had a member.
C9_Witness ==
  /\ hist.op = "splice"
  /\ hist.l # hist.other
  /\ Moved # <<>>
  /\ Members(Heap, hist.other) # {}
  /\ Members(Pre, hist.l) # {}

\* C10: the sentinel's prev is the sentinel iff its next is, and empty()
\* is true exactly when the list has no members (begin() = end()).
C10_Empty ==
  \A l \in Lists :
    /\ prev[pointer(l)] = pointer(l) <=> next[pointer(l)] = pointer(l)
    /\ empty(Heap, l) <=> begin(Heap, l) = end(l)
    /\ empty(Heap, l) <=> Members(Heap, l) = {}

\* A pop has just emptied one list while another list has members.
C10_Witness ==
  /\ hist.op \in {"pop_back", "pop_front"}
  /\ empty(Heap, hist.l)
  /\ \E l \in Lists : ~empty(Heap, l)

\* C12: clear() empties the list by resetting only the sentinel's prev and
\* next; every field of every former member keeps its value, so no former
\* member becomes self-referencing.
C12_ClearFrame ==
  hist.op = "clear" =>
    LET s == pointer(hist.l)
    IN  /\ next[s] = s /\ prev[s] = s
        /\ empty(Heap, hist.l)
        /\ Forward(Heap, hist.l) = <<>>
        /\ \A n \in Node \ {s} :
              next[n] = Pre.next[n] /\ prev[n] = Pre.prev[n]
        /\ \A m \in Members(Pre, hist.l) : ~Unlinked(Heap, m)

\* A list with at least two members was cleared.
C12_Witness ==
  /\ hist.op = "clear"
  /\ Len(Forward(Pre, hist.l)) >= 2

\* C13: splice changes at most the six fields next of first's predecessor,
\* prev of last, next of pos's predecessor, prev of pos, prev of first and
\* next of last's predecessor; the links inside the moved range are kept
\* and the moved elements are traversed within the destination list.
C13_SpliceFrame ==
  hist.op = "splice" =>
    /\ \A n \in Node :
          /\ next[n] # Pre.next[n] =>
                n \in {Pre.prev[hist.first], Pre.prev[hist.pos],
                       Pre.prev[hist.last]}
          /\ prev[n] # Pre.prev[n] =>
                n \in {hist.first, hist.pos, hist.last}
    /\ \A i \in 1..(Len(Moved) - 1) :
          /\ next[Moved[i]] = Moved[i + 1]
          /\ prev[Moved[i + 1]] = Moved[i]
    /\ Range(Moved) \subseteq Members(Heap, hist.l)
    /\ Moved # <<>> =>
          /\ walk(Heap, hist.first, hist.pos, Fuel) = Moved
          /\ next[Moved[Len(Moved)]] = hist.pos

\* A range of at least two elements was spliced.
C13_Witness ==
  /\ hist.op = "splice"
  /\ Len(Moved) >= 2

\* C14: splice(pos, other, first, last) with first = last changes no field
\* of any node, for every pos.
C14_SpliceEmptyRange ==
  (hist.op = "splice" /\ hist.first = hist.last) => Heap = Pre

\* An empty range at a member of one list was spliced in front of a
\* member of another list.
C14_Witness ==
  /\ hist.op = "splice"
  /\ hist.first = hist.last
  /\ hist.first \in Elems
  /\ hist.pos \in Elems
  /\ hist.l # hist.other

\* C18: splice within one list with pos outside [first, last) keeps the
\* ring invariant and the set of members; the range moves in its order to
\* immediately before pos, the other elements keep their order, and with
\* pos = last every field ends as it was.
C18_SpliceSameList ==
  (hist.op = "splice" /\ hist.l = hist.other) =>
    LET A0 == Forward(Pre, hist.l)
        A1 == Forward(Heap, hist.l)
    IN  /\ RingOK(Heap, hist.l)
        /\ Range(A1) = Range(A0)
        /\ Len(A1) = Len(A0)
        /\ A1 = SplicedInto(Without(A0, Range(Moved)), hist.pos,
                            end(hist.l), Moved)
        /\ Without(A1, Range(Moved)) = Without(A0, Range(Moved))
        /\ hist.pos = hist.last => Heap = Pre

\* A non-empty range was moved to another place of its own list.
C18_Witness ==
  /\ hist.op = "splice"
  /\ hist.l = hist.other
  /\ Moved # <<>>
  /\ hist.pos # hist.last
  /\ Forward(Heap, hist.l) # Forward(Pre, hist.l)

\* A non-empty range was spliced in front of its own end, pos = last.
C18_WitnessPosIsLast ==
  /\ hist.op = "splice"
  /\ hist.l = hist.other
  /\ Moved # <<>>
  /\ hist.pos = hist.last

\* C19: unlink() on a member of a ring connects its former predecessor
\* and successor to each other, changes nothing else and leaves the node
\* self-referencing; on a self-referencing node it changes nothing, so a
\* second unlink() in a row leaves the state of the first.
C19_Unlink ==
  hist.op = "unlink" =>
    LET x == hist.elem
        p == Pre.prev[x]
        n == Pre.next[x]
    IN  /\ Unlinked(Heap, x)
        /\ ~Unlinked(Pre, x) => next[p] = n /\ prev[n] = p
        /\ \A m \in Node \ {x} :
              /\ m # p => next[m] = Pre.next[m]
              /\ m # n => prev[m] = Pre.prev[m]
        /\ Unlinked(Pre, x) => Heap = Pre
        /\ hist.rt => Heap = Pre

\* unlink() was called twice in a row on an element that was a member
\* between two other elements.
C19_Witness ==
  /\ hist.op = "unlink"
  /\ hist.rt
  /\ hist.pre2.prev[hist.elem] \in Elems
  /\ hist.pre2.next[hist.elem] \in Elems

\* C20: move-assigning a non-empty list to itself leaves it empty with a
\* self-referencing sentinel; its former members are dropped with their
\* own fields unchanged.
C20_SelfMoveAssign ==
  (hist.op = "move_assign" /\ hist.l = hist.other /\ ~empty(Pre, hist.l)) =>
    LET s == pointer(hist.l)
    IN  /\ next[s] = s /\ prev[s] = s
        /\ empty(Heap, hist.l)
        /\ Members(Heap, hist.l) = {}
        /\ \A m \in Members(Pre, hist.l) :
              /\ next[m] = Pre.next[m] /\ prev[m] = Pre.prev[m]
              /\ \A l \in Lists : m \notin Members(Heap, l)
        /\ \A n \in Node \ {s} :
              next[n] = Pre.next[n] /\ prev[n] = Pre.prev[n]

\* A list with at least two members was move-assigned to itself.
C20_Witness ==
  /\ hist.op = "move_assign"
  /\ hist.l = hist.other
  /\ Len(Forward(Pre, hist.l)) >= 2

\* The list l is a consistent empty ring.
ConsistentEmpty(H, l) ==
  /\ H.next[pointer(l)] = pointer(l)
  /\ H.prev[pointer(l)] = pointer(l)
  /\ empty(H, l)
  /\ RingOK(H, l)

\* C15 as claimed: pop_back() or pop_front() on an empty list corrupts the
\* list, which afterwards is not a consistent empty ring.
C15_PopEmptyCorrupts ==
  hist.op \in {"pop_back_empty", "pop_front_empty"} =>
    ~ConsistentEmpty(Heap, hist.l)

\* C15 as amended: pop_back() or pop_front() on an empty list calls
\* unlink() on the list's own self-referencing sentinel and changes no
\* field: the list stays a consistent empty ring.
C15_PopEmptyNoOp ==
  hist.op \in {"pop_back_empty", "pop_front_empty"} =>
    /\ back(Pre, hist.l) = pointer(hist.l)
    /\ front(Pre, hist.l) = pointer(hist.l)
    /\ Heap = Pre
    /\ ConsistentEmpty(Heap, hist.l)
    /\ \A l \in Lists : RingOK(Heap, l)

\* pop_back() ran on an empty list while another list had members.
C15_Witness ==
  /\ hist.op = "pop_back_empty"
  /\ \E l \in Lists : Len(Forward(Heap, l)) >= 2

\* n.next.prev = n and n.prev.next = n for every node reachable from the
\* sentinel of l.
LinksOK(H, l) ==
  \A n \in Members(H, l) \cup {pointer(l)} :
    /\ H.prev[H.next[n]] = n
    /\ H.next[H.prev[n]] = n

\* The last call linked an element that was a member of a list.
Relinked == hist.op \in {"push_back_linked", "push_front_linked", "insert_linked"}

\* C16 as claimed: linking an element that is a member of a ring breaks
\* the ring invariant both in the ring it was in and in the ring it is
\* inserted into.
C16_RelinkCorruptsBoth ==
  Relinked => ~LinksOK(Heap, hist.other) /\ ~LinksOK(Heap, hist.l)

\* C16 as amended: linking an element that is a member of a ring breaks
\* the ring invariant in the ring it was in; when it is linked into a
\* different list, that list's ring stays consistent and holds the element
\* at the requested place.
C16_RelinkCorruptsSource ==
  Relinked =>
    /\ ~LinksOK(Heap, hist.other)
    /\ hist.l # hist.other =>
          /\ RingOK(Heap, hist.l)
          /\ Forward(Heap, hist.l) =
               SplicedInto(Forward(Pre, hist.l),
                           CASE hist.op = "push_back_linked" -> end(hist.l)
                             [] hist.op = "push_front_linked" ->
                                  begin(Pre, hist.l)
                             [] OTHER -> hist.pos,
                           end(hist.l), <<hist.elem>>)

\* A member of a list of at least two was pushed at the back of another,
\* non-empty list.
C16_Witness ==
  /\ hist.op = "push_back_linked"
  /\ hist.l # hist.other
  /\ Len(Forward(Pre, hist.other)) >= 2
  /\ Len(Forward(Pre, hist.l)) >= 1

\* C17 as claimed: unlink() on a former member of a cleared list changes
\* neither the list's sentinel nor the links of its current members; the
\* list's ring invariant and contents are preserved.
C17_UnlinkFormerFrame ==
  hist.op = "unlink_former" =>
    LET s == pointer(hist.l)
    IN  /\ next[s] = Pre.next[s] /\ prev[s] = Pre.prev[s]
        /\ \A m \in Members(Pre, hist.l) :
              next[m] = Pre.next[m] /\ prev[m] = Pre.prev[m]
        /\ RingOK(Heap, hist.l)
        /\ Forward(Heap, hist.l) = Forward(Pre, hist.l)

\* The nodes of the tag other than the tag of list l.
OtherTagNodes(l) == IF l \in Lists THEN YNodes ELSE Node

\* C11: an element with link nodes for two tags can be a member of a list
\* of each tag at the same time, the rings of both tags stay consistent and
\* hold nodes of their own tag only, and every operation on a list of one
\* tag leaves the prev and next of every node of the other tag unchanged.
C11_TagIndependence ==
  /\ ~Idle =>
        \A n \in OtherTagNodes(hist.l) :
          next[n] = Pre.next[n] /\ prev[n] = Pre.prev[n]
  /\ \A l \in TLists :
        /\ LinksOK(Heap, l)
        /\ Closed(Heap, l)
        /\ Members(Heap, l) \cap OtherTagNodes(l) = {}
        /\ Members(Heap, l) \cap (Sentinels \cup {pointer(YList)}) = {}

\* A splice between two default-tag lists has just run while an element it
\* moved is also a member of the tag-Y list, which has two members.
C11_Witness ==
  /\ hist.op = "splice"
  /\ hist.l \in Lists
  /\ hist.l # hist.other
  /\ Len(Forward(Heap, YList)) >= 2
  /\ \E e \in TagElems :
        /\ e \in Range(Moved)
        /\ e \in Members(Heap, hist.l)
        /\ YNode(e) \in Members(Heap, YList)

====
